---- MODULE Spec2Model ----
(***************************************************************************)
(* A model of the poolq resource pool (lib/pool.js): the admitted-count    *)
(* bookkeeping, the priority queue of acquisition requests and the         *)
(* active / draining / inactive lifecycle.  One action per public method   *)
(* and per promise callback; each action is one run-to-completion job of   *)
(* the JavaScript event loop.                                              *)
(***************************************************************************)
EXTENDS Integers, Sequences, FiniteSets, TLC

\* ------------------------------------------------------------------ bounds
\* Number of acquire() calls accepted in one behaviour of Spec.
MaxReq == 3
\* Largest value max is assigned.
MaxCap == 2
\* Largest priority passed to acquire() in Spec.
MaxPri == 2
\* Number of acquire() calls accepted in one behaviour of SpecWide, where
\* every call passes the default priority.
WideReq == 4
\* Length of a burst of acquire() calls in SpecBurst, and its largest priority.
BurstLen == 5
BurstPri == 5
\* Number of acquire() calls accepted in one behaviour of SpecFair.
FairReq == 2
\* Largest value max is assigned, and number of acquire() calls accepted, in
\* one behaviour of SpecRaise.
RaiseCap == 3
RaiseReq == 3

\* --------------------------------------------------------------- constants
\* lib/pool.js:20-25
ACTIVE == "active"
DRAINING == "draining"
INACTIVE == "inactive"
RESUMING == "resuming"
states == {ACTIVE, DRAINING, INACTIVE, RESUMING}

\* The messages of the errors the pool itself creates.
ErrInactive == "Pool is not active."
ErrDraining == "Pool is draining."
ErrNotOwned == "Object was not obtained from this pool."
ErrResumed == "Pool resumed before completely draining."
ErrInvalid == "Invalid state."
\* What the engine throws on a property access of undefined.
TypeError == "TypeError"

\* Objects a caller may hand to release() that this pool never issued: a
\* plain object, and a slot issued by another Pool instance.  Slots issued by
\* this pool are named by the number of the request that created them.
NoPoolObject == 0
OtherPoolSlot == -1
Foreign == {NoPoolObject, OtherPoolSlot}

VARIABLES
    state,       \* maps.state.get(pool)
    count,       \* maps.count.get(pool)
    max,         \* maps.max.get(pool)
    req,         \* every accepted acquisition request, in call order
    origin,      \* maps.origin: object -> the pool that issued it
    releases,    \* maps.releases.get(pool): object -> its release promise
    transition,  \* maps.transition.get(pool): the drain Deferred, or "none"
    settle,      \* the .then callback of the drain promise is queued
    lowered,     \* history: some assignment to max lowered it
    ev           \* the method call or callback that ran last, and its result

vars == <<state, count, max, req, origin, releases, transition, settle, lowered, ev>>

\* ---------------------------------------------------------------- inputs
\* A JavaScript value passed as a number: NaN stands for everything that
\* does not coerce to a number (undefined, an object, "abc").
NaN == [num |-> FALSE, val |-> 0]
Num(v) == [num |-> TRUE, val |-> v]
isNaN(n) == ~n.num

\* Values assigned to max, in tenths (25 is 2.5), so that truncation shows.
MaxInputs == {NaN} \cup {Num(5 * k) : k \in -3 .. (2 * MaxCap)}
\* Values passed to acquire().
PriorityInputs == {NaN} \cup {Num(p) : p \in 1 .. MaxPri}
\* acquire() and acquire(1): the default priority only.  The order among
\* equal priorities being any, the requests are then dequeued in every order.
DefaultPriorityInputs == {NaN, Num(1)}
BurstInputs == {Num(p) : p \in 1 .. BurstPri}
\* Whole values assigned to max in SpecRaise.
RaiseInputs == {Num(10 * k) : k \in 1 .. RaiseCap}

\* parseInt(n, 10) of a value given in tenths: truncation toward zero.
parseInt(n) ==
    IF isNaN(n) THEN NaN
    ELSE IF n.val >= 0 THEN Num(n.val \div 10) ELSE Num(-((-n.val) \div 10))

MathMax(a, b) == IF a >= b THEN a ELSE b

\* A coercion that truncates and defaults but does not clamp.
CoerceMaxUnclamped(n) ==
    LET val == parseInt(n) IN IF isNaN(val) THEN 1 ELSE val.val

\* lib/pool.js:414-416
CoerceMax(n) ==
    LET val == parseInt(n) IN IF isNaN(val) THEN 1 ELSE MathMax(val.val, 1)

\* lib/pool.js:222
CoercePriority(p) == IF isNaN(p) THEN 1 ELSE p.val

\* ------------------------------------------------------------- the queue
\* The entries of the PriorityQueue: the requests not yet dequeued.
Queue(rq) == {r \in DOMAIN rq : rq[r].st = "queued"}
\* pool.waiting
waiting == Cardinality(Queue(req))

\* The comparator with its operands swapped: ascending priority.
queueComparatorAscending(a, b) == a.priority - b.priority

\* lib/pool.js:97-99
queueComparator(a, b) == b.priority - a.priority

\* What queue.dequeue() may return: an entry no other entry precedes under the
\* comparator.  The order among entries that compare equal is the queue
\* implementation's, so every such entry is a possible result.
Heads(rq) ==
    {r \in Queue(rq) : \A s \in Queue(rq) : queueComparator(rq[r], rq[s]) <= 0}

\* The pool fields spawn and fill work on.
Pool(c, rq) == [count |-> c, req |-> rq]

\* lib/pool.js:112-121: the synchronous part of spawn.  The closure variable
\* `count` (kept in the request as `local`) holds the incremented value.
spawn(p, r) ==
    Pool(p.count + 1,
         [p.req EXCEPT ![r] = [@ EXCEPT !.st = "creating", !.local = p.count + 1]])

\* fill with the loop guard off by one: count <= max.
RECURSIVE fillInclusive(_, _)
fillInclusive(p, m) ==
    IF p.count <= m /\ Cardinality(Queue(p.req)) > 0
    THEN UNION {fillInclusive(spawn(p, r), m) : r \in Heads(p.req)}
    ELSE {p}

\* lib/pool.js:68-76: every outcome of the while loop.
RECURSIVE fill(_, _)
fill(p, m) ==
    IF p.count < m /\ Cardinality(Queue(p.req)) > 0
    THEN UNION {fill(spawn(p, r), m) : r \in Heads(p.req)}
    ELSE {p}

\* The last call or callback: its argument, what it returned or settled, and
\* the error with which it rejected the promise of a pending drain.
Event(op, arg, res) == [op |-> op, arg |-> arg, res |-> res, rejects |-> "none"]

\* ------------------------------------------------------------------ Init
\* lib/pool.js:170-192: the constructor, its options.max being any input.
Init ==
    /\ state = ACTIVE
    /\ count = 0
    /\ max \in {CoerceMax(n) : n \in MaxInputs}
    /\ req = <<>>
    /\ origin = (OtherPoolSlot :> "other")
    /\ releases = [x \in {} |-> 0]
    /\ transition = "none"
    /\ settle = FALSE
    /\ lowered = FALSE
    /\ ev = Event("new", 0, "ok")

\* --------------------------------------------------------------- actions
\* acquire with the capacity test off by one: count <= max.
acquireInclusive(priority) ==
    IF state = INACTIVE
    THEN /\ ev' = Event("acquire", 0, ErrInactive)
         /\ UNCHANGED <<state, count, max, req, origin, releases, transition, settle, lowered>>
    ELSE IF state = DRAINING
    THEN /\ ev' = Event("acquire", 0, ErrDraining)
         /\ UNCHANGED <<state, count, max, req, origin, releases, transition, settle, lowered>>
    ELSE LET r == Len(req) + 1
             queued == Append(req, [priority |-> CoercePriority(priority),
                                    st |-> "queued", local |-> 0])
         IN /\ IF count <= max
               THEN \E h \in Heads(queued) :
                        LET p == spawn(Pool(count, queued), h)
                        IN count' = p.count /\ req' = p.req
               ELSE count' = count /\ req' = queued
            /\ ev' = Event("acquire", r, "pending")
            /\ UNCHANGED <<state, max, origin, releases, transition, settle, lowered>>

\* acquire without the test for a draining pool.
acquireWhileDraining(priority) ==
    IF state = INACTIVE
    THEN /\ ev' = Event("acquire", 0, ErrInactive)
         /\ UNCHANGED <<state, count, max, req, origin, releases, transition, settle, lowered>>
    ELSE LET r == Len(req) + 1
             queued == Append(req, [priority |-> CoercePriority(priority),
                                    st |-> "queued", local |-> 0])
         IN /\ IF count < max
               THEN \E h \in Heads(queued) :
                        LET p == spawn(Pool(count, queued), h)
                        IN count' = p.count /\ req' = p.req
               ELSE count' = count /\ req' = queued
            /\ ev' = Event("acquire", r, "pending")
            /\ UNCHANGED <<state, max, origin, releases, transition, settle, lowered>>

\* lib/pool.js:203-232
acquire(priority) ==
    IF state = INACTIVE
    THEN /\ ev' = Event("acquire", 0, ErrInactive)
         /\ UNCHANGED <<state, count, max, req, origin, releases, transition, settle, lowered>>
    ELSE IF state = DRAINING
    THEN /\ ev' = Event("acquire", 0, ErrDraining)
         /\ UNCHANGED <<state, count, max, req, origin, releases, transition, settle, lowered>>
    ELSE LET r == Len(req) + 1
             queued == Append(req, [priority |-> CoercePriority(priority),
                                    st |-> "queued", local |-> 0])
         IN /\ IF count < max
               THEN \E h \in Heads(queued) :
                        LET p == spawn(Pool(count, queued), h)
                        IN count' = p.count /\ req' = p.req
               ELSE count' = count /\ req' = queued
            /\ ev' = Event("acquire", r, "pending")
            /\ UNCHANGED <<state, max, origin, releases, transition, settle, lowered>>

\* lib/pool.js:122-128: the create promise fulfils.
createResolved(r) ==
    /\ r \in DOMAIN req
    /\ req[r].st = "creating"
    /\ origin' = (r :> "this") @@ origin
    /\ req' = [req EXCEPT ![r].st = "issued"]
    /\ ev' = Event("created", r, "resolved")
    /\ UNCHANGED <<state, count, max, releases, transition, settle, lowered>>

\* lib/pool.js:129-136: the create promise rejects.
createRejected(r) ==
    /\ r \in DOMAIN req
    /\ req[r].st = "creating"
    /\ req' = [req EXCEPT ![r].st = "failed"]
    /\ count' = req[r].local - 1
    /\ ev' = Event("created", r, "rejected")
    /\ UNCHANGED <<state, max, origin, releases, transition, settle, lowered>>

\* maps.origin.get(obj)
originGet(obj) == IF obj \in DOMAIN origin THEN origin[obj] ELSE "undefined"

\* Objects a caller can pass to release(): what acquire() gave it, or
\* something this pool never issued.
Held == Foreign \cup {r \in DOMAIN req : req[r].st = "issued"}

\* History kept beside the release promise of an object: how often destroy was
\* started for it and how often its completion decremented count.
destroys(obj) == IF obj \in DOMAIN releases THEN releases[obj].destroys ELSE 0
decrements(obj) == IF obj \in DOMAIN releases THEN releases[obj].decrements ELSE 0

\* release testing only that the object has some origin, not that it is this pool.
releaseTruthyOrigin(obj) ==
    /\ obj \in Held
    /\ IF originGet(obj) = "undefined"
       THEN /\ ev' = Event("release", obj, ErrNotOwned)
            /\ UNCHANGED releases
       ELSE IF obj \in DOMAIN releases
       THEN /\ ev' = Event("release", obj, "same promise")
            /\ UNCHANGED releases
       ELSE /\ releases' = (obj :> [st |-> "pending", destroys |-> destroys(obj) + 1,
                                    decrements |-> decrements(obj)]) @@ releases
            /\ ev' = Event("release", obj, "promise")
    /\ UNCHANGED <<state, count, max, req, origin, transition, settle, lowered>>

\* release without the look-up of an earlier release of the object.
releaseNoMemo(obj) ==
    /\ obj \in Held
    /\ IF originGet(obj) # "this"
       THEN /\ ev' = Event("release", obj, ErrNotOwned)
            /\ UNCHANGED releases
       ELSE /\ releases' = (obj :> [st |-> "pending", destroys |-> destroys(obj) + 1,
                                    decrements |-> decrements(obj)]) @@ releases
            /\ ev' = Event("release", obj, "promise")
    /\ UNCHANGED <<state, count, max, req, origin, transition, settle, lowered>>

\* lib/pool.js:293-308 and 332-334: the synchronous part of release.
release(obj) ==
    /\ obj \in Held
    /\ IF originGet(obj) # "this"
       THEN /\ ev' = Event("release", obj, ErrNotOwned)
            /\ UNCHANGED releases
       ELSE IF obj \in DOMAIN releases
       THEN /\ ev' = Event("release", obj, "same promise")
            /\ UNCHANGED releases
       ELSE /\ releases' = (obj :> [st |-> "pending", destroys |-> destroys(obj) + 1,
                                    decrements |-> decrements(obj)]) @@ releases
            /\ ev' = Event("release", obj, "promise")
    /\ UNCHANGED <<state, count, max, req, origin, transition, settle, lowered>>

\* The release promise of obj settled as st by the callback that decremented
\* count.
decremented(obj, st) ==
    [releases EXCEPT ![obj].st = st, ![obj].decrements = @ + 1]

\* The destroy callback without the refill of the freed capacity.
destroyResolvedNoFill(obj) ==
    /\ obj \in DOMAIN releases
    /\ releases[obj].st = "pending"
    /\ LET c == count - 1 IN
       IF state = DRAINING
       THEN /\ count' = c
            /\ UNCHANGED <<req, state>>
            /\ IF c = 0
               THEN IF transition = "none"
                    THEN \* maps.transition.get(self) is undefined
                         /\ releases' = decremented(obj, TypeError)
                         /\ ev' = Event("destroyed", obj, TypeError)
                         /\ UNCHANGED <<transition, settle>>
                    ELSE /\ transition' = "none"
                         /\ settle' = TRUE
                         /\ releases' = decremented(obj, "resolved")
                         /\ ev' = Event("destroyed", obj, "drained")
               ELSE /\ releases' = decremented(obj, "resolved")
                    /\ ev' = Event("destroyed", obj, "resolved")
                    /\ UNCHANGED <<transition, settle>>
       ELSE /\ count' = c /\ req' = req
            /\ releases' = decremented(obj, "resolved")
            /\ ev' = Event("destroyed", obj, "resolved")
            /\ UNCHANGED <<state, transition, settle>>
    /\ UNCHANGED <<max, origin, lowered>>

\* A release completion running the admission whatever the state of the pool.
destroyResolvedFillAlways(obj) ==
    /\ obj \in DOMAIN releases
    /\ releases[obj].st = "pending"
    /\ \E p \in fill(Pool(count - 1, req), max) :
           count' = p.count /\ req' = p.req
    /\ releases' = decremented(obj, "resolved")
    /\ ev' = Event("destroyed", obj, "resolved")
    /\ UNCHANGED <<state, max, origin, transition, settle, lowered>>

\* lib/pool.js:309-330: the destroy promise fulfils.
destroyResolved(obj) ==
    /\ obj \in DOMAIN releases
    /\ releases[obj].st = "pending"
    /\ LET c == count - 1 IN
       IF state = DRAINING
       THEN /\ count' = c
            /\ UNCHANGED <<req, state>>
            /\ IF c = 0
               THEN IF transition = "none"
                    THEN \* maps.transition.get(self) is undefined
                         /\ releases' = decremented(obj, TypeError)
                         /\ ev' = Event("destroyed", obj, TypeError)
                         /\ UNCHANGED <<transition, settle>>
                    ELSE /\ transition' = "none"
                         /\ settle' = TRUE
                         /\ releases' = decremented(obj, "resolved")
                         /\ ev' = Event("destroyed", obj, "drained")
               ELSE /\ releases' = decremented(obj, "resolved")
                    /\ ev' = Event("destroyed", obj, "resolved")
                    /\ UNCHANGED <<transition, settle>>
       ELSE /\ IF state = ACTIVE
               THEN \E p \in fill(Pool(c, req), max) :
                        count' = p.count /\ req' = p.req
               ELSE count' = c /\ req' = req
            /\ releases' = decremented(obj, "resolved")
            /\ ev' = Event("destroyed", obj, "resolved")
            /\ UNCHANGED <<state, transition, settle>>
    /\ UNCHANGED <<max, origin, lowered>>

\* A failed destroy that gives the slot's capacity back all the same.
destroyRejectedCounted(obj) ==
    /\ obj \in DOMAIN releases
    /\ releases[obj].st = "pending"
    /\ releases' = decremented(obj, "rejected")
    /\ count' = count - 1
    /\ ev' = Event("destroyed", obj, "rejected")
    /\ UNCHANGED <<state, max, req, origin, transition, settle, lowered>>

\* lib/pool.js:308-330: the destroy promise rejects; the .then callback is
\* skipped and the release promise rejects with the destruction error.
destroyRejected(obj) ==
    /\ obj \in DOMAIN releases
    /\ releases[obj].st = "pending"
    /\ releases' = [releases EXCEPT ![obj].st = "rejected"]
    /\ ev' = Event("destroyed", obj, "rejected")
    /\ UNCHANGED <<state, count, max, req, origin, transition, settle, lowered>>

\* drain without the shortcut for a pool with nothing outstanding.
drainAlwaysTransition ==
    IF state = DRAINING
    THEN /\ ev' = Event("drain", 0, IF transition = "none" THEN TypeError ELSE "transition")
         /\ UNCHANGED <<state, count, max, req, origin, releases, transition, settle, lowered>>
    ELSE IF state = INACTIVE
    THEN /\ ev' = Event("drain", 0, "resolved")
         /\ UNCHANGED <<state, count, max, req, origin, releases, transition, settle, lowered>>
    ELSE IF state = ACTIVE
    THEN /\ transition' = "pending"
         /\ state' = DRAINING
         /\ ev' = Event("drain", 0, "transition")
         /\ UNCHANGED <<count, max, req, origin, releases, settle, lowered>>
    ELSE /\ ev' = Event("drain", 0, ErrInvalid)
         /\ UNCHANGED <<state, count, max, req, origin, releases, transition, settle, lowered>>

\* lib/pool.js:242-282
drain ==
    IF state = DRAINING
    THEN /\ ev' = Event("drain", 0, IF transition = "none" THEN TypeError ELSE "transition")
         /\ UNCHANGED <<state, count, max, req, origin, releases, transition, settle, lowered>>
    ELSE IF state = INACTIVE
    THEN /\ ev' = Event("drain", 0, "resolved")
         /\ UNCHANGED <<state, count, max, req, origin, releases, transition, settle, lowered>>
    ELSE IF state = ACTIVE
    THEN IF count = 0
         THEN /\ state' = INACTIVE
              /\ ev' = Event("drain", 0, "resolved")
              /\ UNCHANGED <<count, max, req, origin, releases, transition, settle, lowered>>
         ELSE /\ transition' = "pending"
              /\ state' = DRAINING
              /\ ev' = Event("drain", 0, "transition")
              /\ UNCHANGED <<count, max, req, origin, releases, settle, lowered>>
    ELSE /\ ev' = Event("drain", 0, ErrInvalid)
         /\ UNCHANGED <<state, count, max, req, origin, releases, transition, settle, lowered>>

\* The drain callback leaving the pool in the fourth declared state.
drainSettledResuming ==
    /\ settle
    /\ settle' = FALSE
    /\ transition' = "none"
    /\ state' = RESUMING
    /\ ev' = Event("drained", 0, "resolved")
    /\ UNCHANGED <<count, max, req, origin, releases, lowered>>

\* lib/pool.js:270-273: the callback chained on the drain promise.
drainSettled ==
    /\ settle
    /\ settle' = FALSE
    /\ transition' = "none"
    /\ state' = INACTIVE
    /\ ev' = Event("drained", 0, "resolved")
    /\ UNCHANGED <<count, max, req, origin, releases, lowered>>

\* lib/pool.js:344-377
resume ==
    IF state = ACTIVE
    THEN /\ ev' = Event("resume", 0, "resolved")
         /\ UNCHANGED <<state, count, max, req, origin, releases, transition, settle, lowered>>
    ELSE IF state = INACTIVE
    THEN /\ state' = ACTIVE
         /\ ev' = Event("resume", 0, "resolved")
         /\ UNCHANGED <<count, max, req, origin, releases, transition, settle, lowered>>
    ELSE IF state = DRAINING
    THEN IF transition = "none"
         THEN \* transition.reject on undefined
              /\ ev' = Event("resume", 0, TypeError)
              /\ UNCHANGED <<state, count, max, req, origin, releases, transition, settle, lowered>>
         ELSE /\ transition' = "none"
              /\ state' = ACTIVE
              /\ \E p \in fill(Pool(count, req), max) :
                     count' = p.count /\ req' = p.req
              /\ ev' = [Event("resume", 0, "resolved") EXCEPT !.rejects = ErrResumed]
              /\ UNCHANGED <<max, origin, releases, settle, lowered>>
    ELSE /\ ev' = Event("resume", 0, ErrInvalid)
         /\ UNCHANGED <<state, count, max, req, origin, releases, transition, settle, lowered>>

\* The setter running the admission whatever the state of the pool.
setMaxFillAlways(n) ==
    /\ max' = CoerceMax(n)
    /\ lowered' = (lowered \/ max' < max)
    /\ \E p \in fill(Pool(count, req), max') :
           count' = p.count /\ req' = p.req
    /\ ev' = Event("max", max', "ok")
    /\ UNCHANGED <<state, origin, releases, transition, settle>>

\* The setter without the admission that follows the assignment.
setMaxNoFill(n) ==
    /\ max' = CoerceMax(n)
    /\ lowered' = (lowered \/ max' < max)
    /\ ev' = Event("max", max', "ok")
    /\ UNCHANGED <<state, count, req, origin, releases, transition, settle>>

\* lib/pool.js:413-422
setMax(n) ==
    /\ max' = CoerceMax(n)
    /\ lowered' = (lowered \/ max' < max)
    /\ IF state = ACTIVE
       THEN \E p \in fill(Pool(count, req), max') :
                count' = p.count /\ req' = p.req
       ELSE UNCHANGED <<count, req>>
    /\ ev' = Event("max", max', "ok")
    /\ UNCHANGED <<state, origin, releases, transition, settle>>

\* ------------------------------------------------------ the specification
Acquire == \E p \in PriorityInputs : Len(req) < MaxReq /\ acquire(p)
CreateResolved == \E r \in DOMAIN req : createResolved(r)
CreateRejected == \E r \in DOMAIN req : createRejected(r)
Release == \E obj \in Held : release(obj)
DestroyResolved == \E obj \in DOMAIN releases : destroyResolved(obj)
DestroyRejected == \E obj \in DOMAIN releases : destroyRejected(obj)
SetMax == \E n \in MaxInputs : setMax(n)

Next ==
    \/ Acquire
    \/ CreateResolved
    \/ CreateRejected
    \/ Release
    \/ DestroyResolved
    \/ DestroyRejected
    \/ drain
    \/ drainSettled
    \/ resume
    \/ SetMax

Spec == Init /\ [][Next]_vars

\* The same pool with one more request, every request of the default priority.
AcquireWide == \E p \in DefaultPriorityInputs : Len(req) < WideReq /\ acquire(p)

NextWide ==
    \/ AcquireWide
    \/ CreateResolved
    \/ CreateRejected
    \/ Release
    \/ DestroyResolved
    \/ DestroyRejected
    \/ drain
    \/ drainSettled
    \/ resume
    \/ SetMax

SpecWide == Init /\ [][NextWide]_vars

\* A fresh pool and a burst of acquire() calls made back to back, before any
\* promise callback runs.
AcquireBurst == \E p \in BurstInputs : Len(req) < BurstLen /\ acquire(p)

SpecBurst == Init /\ [][AcquireBurst]_vars

\* The pool under the scheduling the event loop and a well-behaved caller
\* give it: every create settles, every issued slot is released and its
\* destroy succeeds, the callback of a satisfied drain runs, and a pool that
\* is not active is resumed.
AcquireFair == \E p \in DefaultPriorityInputs : Len(req) < FairReq /\ acquire(p)
CreateSettled == CreateResolved \/ CreateRejected
ReleaseIssued ==
    \E obj \in {r \in DOMAIN req : req[r].st = "issued"} \ DOMAIN releases : release(obj)
ResumeStopped == state # ACTIVE /\ resume

NextFair ==
    \/ AcquireFair
    \/ CreateSettled
    \/ Release
    \/ DestroyResolved
    \/ drain
    \/ drainSettled
    \/ resume
    \/ SetMax

SpecFair ==
    /\ Init
    /\ [][NextFair]_vars
    /\ WF_vars(CreateSettled)
    /\ WF_vars(ReleaseIssued)
    /\ WF_vars(DestroyResolved)
    /\ WF_vars(drainSettled)
    /\ WF_vars(ResumeStopped)

\* A pool whose max ranges over whole values up to RaiseCap, every request of
\* the default priority: max can be lowered below count and raised again.
InitRaise ==
    /\ state = ACTIVE
    /\ count = 0
    /\ max \in {CoerceMax(n) : n \in RaiseInputs}
    /\ req = <<>>
    /\ origin = (OtherPoolSlot :> "other")
    /\ releases = [x \in {} |-> 0]
    /\ transition = "none"
    /\ settle = FALSE
    /\ lowered = FALSE
    /\ ev = Event("new", 0, "ok")

AcquireRaise == \E p \in DefaultPriorityInputs : Len(req) < RaiseReq /\ acquire(p)
SetMaxRaise == \E n \in RaiseInputs : setMax(n)

NextRaise ==
    \/ AcquireRaise
    \/ CreateResolved
    \/ CreateRejected
    \/ Release
    \/ DestroyResolved
    \/ DestroyRejected
    \/ drain
    \/ drainSettled
    \/ resume
    \/ SetMaxRaise

SpecRaise == InitRaise /\ [][NextRaise]_vars

\* A pool constructed without a max option, whose max is never assigned.
InitDefault ==
    /\ state = ACTIVE
    /\ count = 0
    /\ max = CoerceMax(NaN)
    /\ req = <<>>
    /\ origin = (OtherPoolSlot :> "other")
    /\ releases = [x \in {} |-> 0]
    /\ transition = "none"
    /\ settle = FALSE
    /\ lowered = FALSE
    /\ ev = Event("new", 0, "ok")

NextDefault ==
    \/ Acquire
    \/ CreateResolved
    \/ CreateRejected
    \/ Release
    \/ DestroyResolved
    \/ DestroyRejected
    \/ drain
    \/ drainSettled
    \/ resume

SpecDefault == InitDefault /\ [][NextDefault]_vars

\* ============================================================== properties
\* Requests whose create operation is in flight.
Creating == {r \in DOMAIN req : req[r].st = "creating"}
\* Slots whose destroy completed and was counted.
Released == {x \in DOMAIN releases : releases[x].st \in {"resolved", TypeError}}
\* Slots handed to a caller and not yet successfully released.
Issued == {r \in DOMAIN req : req[r].st = "issued"} \ Released
\* The slots really outstanding.
Outstanding == Cardinality(Creating) + Cardinality(Issued)
\* No create and no destroy operation is in flight.
Quiescent ==
    /\ Creating = {}
    /\ \A x \in DOMAIN releases : releases[x].st # "pending"

\* C1: as long as max is never lowered, the slots really outstanding (creates
\* in flight plus slots issued and not yet successfully released) never
\* exceed max.
C1_OutstandingWithinMax == ~lowered => Outstanding <= max

\* C2 as stated: at every quiescent point count <= max, whatever the
\* assignments to max.
C2_QuiescentCountWithinMax == Quiescent => count <= max

\* C2 amended: at every quiescent point of a run in which max was never
\* lowered, count <= max.
C2_QuiescentCountWithinMaxUnlessLowered == (Quiescent /\ ~lowered) => count <= max

\* A quiescent point with the pool full, requests waiting and a slot already
\* released once, max never lowered.
C2_Witness ==
    /\ Quiescent
    /\ ~lowered
    /\ count = max
    /\ waiting > 0
    /\ Released # {}

\* C3: no request is silently dropped: under SpecFair, in a behaviour that
\* does not leave the pool drained (it ends up active for good), every
\* accepted request is eventually fulfilled with a slot or failed.
C3_EveryRequestSettles ==
    <>[](state = ACTIVE) =>
        \A r \in 1 .. FairReq :
            (r \in DOMAIN req) ~> (r \in DOMAIN req /\ req[r].st \in {"issued", "failed"})

\* The request r was dequeued and spawned by the step.
Dequeued(r) ==
    /\ r \in DOMAIN req'
    /\ req'[r].st = "creating"
    /\ r \in DOMAIN req => req[r].st = "queued"

\* C4: whenever a step (acquire, release completion, max assignment or
\* resume) dequeues a request, its priority is at least that of every request
\* still queued at that moment: those left queued by the step and those the
\* same step dequeues after it.
C4_AdmissionHonorsPriority ==
    [][\A r \in DOMAIN req' :
          Dequeued(r) =>
              \A s \in DOMAIN req' :
                  (req'[s].st = "queued" \/ (Dequeued(s) /\ req'[s].local > req'[r].local))
                      => req'[r].priority >= req'[s].priority]_vars

\* A release completion has admitted a request over an older one of lower
\* priority, which is still queued.
C4_Witness ==
    /\ ev.op = "destroyed"
    /\ \E r, s \in DOMAIN req :
           /\ s < r
           /\ req[r].st = "creating"
           /\ req[s].st = "queued"
           /\ req[r].priority > req[s].priority

\* The priorities of the requests, in call order.
Priorities == [r \in DOMAIN req |-> req[r].priority]
\* The requests of a burst that were spawned.
Admitted == {r \in DOMAIN req : req[r].st = "creating"}
\* The scenario of C5: five calls with priorities 1, 5, 1, 3, 1 and max = 2.
Scenario == max = 2 /\ Priorities = <<1, 5, 1, 3, 1>>
Min(a, b) == IF a <= b THEN a ELSE b

\* C5 as stated: the requests a back-to-back burst admits are the
\* highest-priority ones; in the scenario, those with priorities 5 and 3.
C5_BurstAdmitsHighest ==
    /\ \A a \in Admitted : \A q \in Queue(req) : req[a].priority >= req[q].priority
    /\ Scenario => Admitted = {2, 4}

\* C5 amended: the requests a back-to-back burst admits are the first max
\* calls, whatever their priorities; the later ones stay queued, and the next
\* to be dequeued has the highest priority among them.  In the scenario the
\* requests with priorities 1 and 5 are admitted and 1, 3, 1 stay queued, 3 at
\* the head.
C5_BurstAdmitsFirst ==
    /\ Admitted = 1 .. Min(Len(req), max)
    /\ Queue(req) = (DOMAIN req) \ Admitted
    /\ count = Cardinality(Admitted)
    /\ \A h \in Heads(req) : \A q \in Queue(req) : req[h].priority >= req[q].priority
    /\ Scenario => Admitted = {1, 2} /\ Queue(req) = {3, 4, 5} /\ Heads(req) = {4}

\* The burst of the scenario has been made.
C5_Witness == Scenario /\ ev.op = "acquire" /\ ev.arg = 5

\* No create has failed and no release has been called.
Undisturbed ==
    /\ \A r \in DOMAIN req : req[r].st # "failed"
    /\ DOMAIN releases = {}

\* C6, the counts: on an active pool, after n accepted acquires with no failed
\* create, no release and max never lowered, count = min(n, max) and
\* waiting = n - min(n, max).
C6_Counts ==
    (state = ACTIVE /\ Undisturbed /\ ~lowered) =>
        /\ count = Min(Len(req), max)
        /\ waiting = Len(req) - Min(Len(req), max)

\* C6, acquire on a full pool: the request stays pending in the queue and
\* waiting rises by one.
C6_AcquireWhenFull ==
    (ev'.op = "acquire" /\ state = ACTIVE /\ count = max) =>
        /\ ev'.res = "pending"
        /\ count' = count
        /\ Queue(req') = Queue(req) \cup {Len(req) + 1}
        /\ Cardinality(Queue(req')) = waiting + 1

\* C6, release on a full pool: a successful release admits exactly one queued
\* request and waiting falls by one.
C6_ReleaseWhenFull ==
    (ev'.op = "destroyed" /\ ev'.res = "resolved" /\ state = ACTIVE
        /\ count = max /\ waiting > 0) =>
        /\ Cardinality({r \in DOMAIN req' : Dequeued(r)}) = 1
        /\ Cardinality(Queue(req')) = waiting - 1
        /\ count' = count

\* C6: on an active pool with count = max each acquire queues one request, and
\* each successful release admits exactly one.
C6_FullPoolQueuesAndRefills ==
    []C6_Counts /\ [][C6_AcquireWhenFull /\ C6_ReleaseWhenFull]_vars

\* max = 1, two acquires: releasing the first slot has admitted the second
\* request and waiting is back to 0.
C6_Witness ==
    /\ max = 1
    /\ Len(req) = 2
    /\ ev = Event("destroyed", 1, "resolved")
    /\ req[2].st = "creating"
    /\ waiting = 0
    /\ ~lowered

\* C7: acquire() is rejected with 'not active' when inactive and with
\* 'draining' when draining, and then changes nothing; it is accepted, and
\* records a request, only when active.
C7_AcquireOnlyWhenActive ==
    [][ev'.op = "acquire" =>
          IF state = INACTIVE
          THEN /\ ev'.res = ErrInactive
               /\ UNCHANGED <<state, count, max, req, origin, releases, transition, settle>>
          ELSE IF state = DRAINING
          THEN /\ ev'.res = ErrDraining
               /\ UNCHANGED <<state, count, max, req, origin, releases, transition, settle>>
          ELSE /\ state = ACTIVE
               /\ ev'.res = "pending"
               /\ Len(req') = Len(req) + 1]_vars

\* An acquire() was rejected by a draining pool that has requests queued.
C7_Witness == ev = Event("acquire", 0, ErrDraining) /\ waiting > 0 /\ count < max

\* C8: release() of an object whose origin is not this pool fails with 'not
\* obtained from this pool', starts no destroy and changes nothing.
C8_ReleaseNotOwned ==
    [][(ev'.op = "release" /\ originGet(ev'.arg) # "this") =>
          /\ ev'.res = ErrNotOwned
          /\ UNCHANGED <<state, count, max, req, origin, releases, transition, settle>>]_vars

\* A slot of another pool was refused while this pool had slots out.
C8_Witness == ev = Event("release", OtherPoolSlot, ErrNotOwned) /\ count > 0 /\ Issued # {}

\* C9: a release() of a slot whose release is still outstanding returns the
\* same promise and changes nothing; destroy is started once per slot and
\* count is decremented at most once for it.
C9_ReleaseOnce ==
    /\ [](\A x \in DOMAIN releases :
              releases[x].destroys = 1 /\ releases[x].decrements <= 1)
    /\ [][(ev'.op = "release" /\ ev'.arg \in DOMAIN releases
              /\ releases[ev'.arg].st = "pending") =>
              /\ ev'.res = "same promise"
              /\ UNCHANGED <<state, count, max, req, origin, releases, transition, settle>>]_vars

\* A second release() of a slot was made while its destroy was in flight.
C9_Witness ==
    /\ ev.op = "release"
    /\ ev.res = "same promise"
    /\ releases[ev.arg].st = "pending"

\* C10: drain() on an active pool with count = 0 makes it inactive in the same
\* call, returns a satisfied promise and creates no transition; drain() on an
\* inactive pool returns a satisfied promise and changes nothing.
C10_DrainWhenIdle ==
    [][ev'.op = "drain" =>
          /\ (state = ACTIVE /\ count = 0) =>
                 /\ state' = INACTIVE
                 /\ ev'.res = "resolved"
                 /\ transition' = "none"
                 /\ UNCHANGED <<count, max, req, origin, releases, transition, settle>>
          /\ state = INACTIVE =>
                 /\ ev'.res = "resolved"
                 /\ UNCHANGED <<state, count, max, req, origin, releases, transition, settle>>]_vars

\* drain() has made inactive, at once, a pool whose slots were all released.
C10_Witness ==
    /\ ev = Event("drain", 0, "resolved")
    /\ state = INACTIVE
    /\ count = 0
    /\ transition = "none"
    /\ ~settle
    /\ Released # {}

\* C11: the drain promise is never resolved, and the pool is never inactive,
\* while a slot issued by the pool is unreleased or a create is in flight.
C11_NoDrainWhileOutstanding == (state = INACTIVE \/ settle) => Outstanding = 0

\* C12: a draining pool whose count has reached 0, by releases or by a pending
\* create failing, has its drain promise resolved and becomes inactive. Stated
\* on finite runs: the pool is never left draining with count = 0, no create
\* or destroy in flight, no slot to release and the drain promise unresolved,
\* since from there only resume() changes the pool.
C12_DrainCompletes ==
    (state = DRAINING /\ count = 0 /\ Quiescent /\ Issued = {}) => settle

\* C13: every drain() call made while the pool is draining returns the promise
\* of the existing transition and creates no second transition: the calls of
\* one drain episode share one outcome.
C13_DrainSharesTransition ==
    [][(ev'.op = "drain" /\ state = DRAINING) =>
          /\ transition = "pending"
          /\ ev'.res = "transition"
          /\ UNCHANGED <<state, count, max, req, origin, releases, transition, settle>>]_vars

\* C14: a drain() call never throws and never returns a promise that is
\* already rejected, in any reachable state, the steps between the release
\* that brought count to 0 and the pool becoming inactive included.
C14_DrainNeverThrows == ev.op = "drain" => ev.res \in {"resolved", "transition"}

\* C15: resume() called on a draining pool, its drain promise still unsettled,
\* rejects that promise with the 'resumed before completely draining' error,
\* discards the transition, makes the pool active and, in the same call,
\* spawns queued requests until count >= max or the queue is empty.
C15_ResumeCancelsDrain ==
    [][(ev'.op = "resume" /\ state = DRAINING) =>
          /\ ev'.rejects = ErrResumed
          /\ transition' = "none"
          /\ state' = ACTIVE
          /\ (waiting' = 0 \/ count' >= max)
          /\ count' - count = Cardinality(Creating') - Cardinality(Creating)
          /\ UNCHANGED <<max, origin, releases>>]_vars

\* C16: resume() always succeeds: called in any reachable state it returns a
\* satisfied promise and leaves the pool active.
C16_ResumeAlwaysSucceeds == ev.op = "resume" => (ev.res = "resolved" /\ state = ACTIVE)

\* C17: a create failure fails only the request being spawned and rolls back
\* only its own reservation: count decreases by exactly one from its value
\* just before the failure is handled, every other request, the queue and
\* the state are left as they were, and no retry is spawned.
C17_CreateFailureIsLocal ==
    [][(ev'.op = "created" /\ ev'.res = "rejected") =>
          /\ count' = count - 1
          /\ req[ev'.arg].st = "creating"
          /\ req' = [req EXCEPT ![ev'.arg].st = "failed"]
          /\ UNCHANGED <<state, max, origin, releases, transition, settle>>]_vars

\* C18: when destroy fails during release(slot), the release promise is
\* rejected and count, the ownership of the slot, the queue and the state are
\* left unchanged: the slot stays counted and owned and no request is spawned.
C18_DestroyFailureChangesNothing ==
    [][(ev'.op = "destroyed" /\ ev'.res = "rejected") =>
          /\ releases[ev'.arg].st = "pending"
          /\ releases' = [releases EXCEPT ![ev'.arg].st = "rejected"]
          /\ originGet(ev'.arg) = "this"
          /\ UNCHANGED <<state, count, max, req, origin, transition, settle>>]_vars

\* The destroy of a released slot has failed on an active pool with a request
\* waiting for capacity: the slot is still counted and the request still waits.
C18_Witness ==
    /\ ev.op = "destroyed"
    /\ ev.res = "rejected"
    /\ releases[ev.arg].st = "rejected"
    /\ state = ACTIVE
    /\ count = max
    /\ waiting > 0

Spawned == {r \in DOMAIN req' : Dequeued(r)}

\* C20 as stated: raising max on an active pool dequeues and spawns, within
\* the assignment, min(waiting before, new max - count before) requests, so
\* that the queue is empty or count >= max afterwards.
C20_RaiseAdmitsMin ==
    [][(ev'.op = "max" /\ state = ACTIVE /\ max' > max) =>
          /\ Cardinality(Spawned) = Min(waiting, max' - count)
          /\ (waiting' = 0 \/ count' >= max')]_vars

\* C20: raising max on an active pool dequeues and spawns, within the
\* assignment, min(waiting before, new max - count before) requests, and none
\* when count before exceeds the new max; count grows and the queue shrinks
\* by that number, so that the queue is empty or count >= max afterwards.
C20_RaiseAdmitsUpToMax ==
    [][(ev'.op = "max" /\ state = ACTIVE /\ max' > max) =>
          LET n == IF count > max' THEN 0 ELSE Min(waiting, max' - count) IN
          /\ Cardinality(Spawned) = n
          /\ count' = count + n
          /\ waiting' = waiting - n
          /\ Len(req') = Len(req)
          /\ (waiting' = 0 \/ count' >= max')
          /\ UNCHANGED <<state, origin, releases, transition, settle>>]_vars

\* An assignment has set max to its largest value on an active pool, which
\* is at capacity with no request waiting and two creates in flight.
C20_Witness ==
    /\ ev = Event("max", RaiseCap, "ok")
    /\ state = ACTIVE
    /\ count = max
    /\ waiting = 0
    /\ Cardinality(Creating) >= 2
    /\ \E r \in DOMAIN req : req[r].st = "issued"

\* C21: an assignment that lowers max below count leaves count, the issued
\* slots, the queue and the state unchanged; afterwards, while count has not
\* come down below max and max stays as it is, count goes down one slot at a
\* time and a queued request is spawned only by the release completion that
\* brings count below max.
C21_LoweringWithholdsAdmission ==
    [][/\ (ev'.op = "max" /\ max' < count) =>
              UNCHANGED <<state, count, req, origin, releases, transition, settle>>
       /\ (lowered /\ count >= max /\ max' = max) =>
              /\ count' \in {count - 1, count}
              /\ Spawned # {} =>
                     (ev'.op = "destroyed" /\ ev'.res = "resolved" /\ count = max)]_vars

\* C22 as stated: from drain() until resume(), that is while the pool is not
\* active, no acquire request is fulfilled with a slot, the requests whose
\* create was in flight when drain() was called included.
C22_NoSlotIssuedWhileDrained ==
    (ev.op = "created" /\ ev.res = "resolved") => state = ACTIVE

\* C22: from drain() until resume(), that is while the pool is not active, no
\* acquire request is accepted and no request is spawned; the only requests
\* fulfilled are those whose create was already in flight.
C22_NothingSpawnedWhileDrained ==
    [][(state # ACTIVE /\ ev'.op # "resume") =>
          /\ state' # ACTIVE
          /\ Spawned = {}
          /\ Len(req') = Len(req)
          /\ waiting' = waiting
          /\ (ev'.op = "acquire" => ev'.res \in {ErrDraining, ErrInactive})
          /\ (ev'.op = "created" => req[ev'.arg].st = "creating")]_vars

\* A create that was in flight when drain() was called has completed on the
\* draining pool, a request still waiting in the queue.
C22_Witness ==
    /\ ev.op = "created"
    /\ ev.res = "resolved"
    /\ state = DRAINING
    /\ transition = "pending"
    /\ req[ev.arg].st = "issued"
    /\ waiting > 0

\* C23: a pool constructed without a max option has an unbounded maximum:
\* every accepted acquire() is spawned at once and none is queued.
C23_DefaultMaxUnbounded == \A r \in DOMAIN req : req[r].st # "queued"

\* C24: in every reachable state count equals the number of slots reserved or
\* issued: the creates in flight plus the slots issued and not yet
\* successfully released.
C24_CountIsOutstanding == count = Outstanding

\* C25: count is never negative.
C25_CountNeverNegative == count >= 0

\* C26: in every reachable state a drain transition exists if and only if the
\* pool is draining.
C26_TransitionIffDraining == (transition = "pending") <=> (state = DRAINING)

\* C27: whenever the pool is inactive the request queue is empty.
C27_InactiveQueueEmpty == state = INACTIVE => waiting = 0

\* C28: free capacity is never left unused: in every state where the pool is
\* active, between two calls or callbacks, the queue is empty or count >= max.
C28_NoFreeCapacityWithQueue == state = ACTIVE => (waiting = 0 \/ count >= max)

\* C29: once the release of a slot has completed successfully the slot is no
\* longer owned: a later release of it fails with the 'not obtained from this
\* pool' error.
C29_ReleasedSlotNotOwned ==
    (ev.op = "release" /\ ev.arg \in Released) => ev.res = ErrNotOwned

\* C30: the state is always ACTIVE, DRAINING or INACTIVE, ACTIVE on
\* construction: RESUMING is never reached and no call returns the 'Invalid
\* state' error.
C30_ThreeStates ==
    /\ state \in {ACTIVE, DRAINING, INACTIVE}
    /\ state # RESUMING
    /\ ev.op = "new" => state = ACTIVE
    /\ ev.res # ErrInvalid

\* The callback of a completed drain has run: the pool, constructed active,
\* went through draining and is now inactive.
C30_Witness ==
    /\ ev = Event("drained", 0, "resolved")
    /\ state = INACTIVE
    /\ transition = "none"
    /\ Released # {}

\* C31: no admission happens outside ACTIVE: every step that dequeues a
\* request and increments count does so with the pool active (resume() having
\* set the state before it fills), and a release completion or an assignment
\* to max on a draining or inactive pool leaves the queue untouched.
C31_AdmissionOnlyWhenActive ==
    [][/\ Spawned # {} =>
              /\ state' = ACTIVE
              /\ (state = ACTIVE \/ ev'.op = "resume")
              /\ count' > count - (IF ev'.op = "destroyed" THEN 1 ELSE 0)
       /\ (ev'.op \in {"destroyed", "max"} /\ state # ACTIVE) =>
              /\ req' = req
              /\ state' = state]_vars

\* A release has completed on a draining pool that still holds another slot:
\* capacity is free and a request is queued, and it stays queued.
C31_Witness ==
    /\ ev.op = "destroyed"
    /\ ev.res = "resolved"
    /\ state = DRAINING
    /\ transition = "pending"
    /\ waiting > 0
    /\ 0 < count
    /\ count < max

====
